---- MODULE Spec2Model ----
(***************************************************************************)
(* Model of src/minesweeper.py: the Minesweeper board's neighbour count,   *)
(* the Sentence class and the MinesweeperAI knowledge engine.              *)
(*                                                                         *)
(* A cell is a pair <<row, col>>.  A Sentence is a record                  *)
(* [cells |-> set of cells, count |-> integer].  The knowledge base is a   *)
(* sequence of sentences (a Python list: order and duplicates matter).     *)
(***************************************************************************)
EXTENDS Integers, Sequences, FiniteSets, TLC

\* ---------------------------------------------------------------- bounds
\* grids of the games: up to MaxHeight x MaxWidth, at most MaxCells cells
MaxHeight == 2
MaxWidth == 4
MaxCells == 8
\* mines on the board, and add_knowledge calls per game
MaxMines == 1
MaxCalls == 3
\* the engine driven with arbitrary arguments: cells of the grid, mutating
\* calls per run, largest count passed to add_knowledge
MaxAnyCells == 3
MaxAnyCalls == 3
MaxCount == 2

VARIABLES
    height,      \* MinesweeperAI.height (= Minesweeper.height)
    width,       \* MinesweeperAI.width  (= Minesweeper.width)
    board,       \* Minesweeper.mines: the cells of the board that hold a mine
    moves_made,  \* MinesweeperAI.moves_made
    mines,       \* MinesweeperAI.mines
    safes,       \* MinesweeperAI.safes
    knowledge,   \* MinesweeperAI.knowledge
    lastOp,      \* the engine operation that returned last
    lastCell,    \* cell argument of the last add_knowledge/mark_* call
    lastCount,   \* count argument of the last add_knowledge call
    ret,         \* value returned by the last make_safe_move/make_random_move
    calls,       \* number of mutating engine calls made so far
    repeated     \* the last call was mark_mine/mark_safe and repeated the
                 \* call made right before it (same operation, same cell)

vars == <<height, width, board, moves_made, mines, safes, knowledge,
          lastOp, lastCell, lastCount, ret, calls, repeated>>

None == <<>>

\* every coordinate of an h x w grid
GridCells(h, w) == (0 .. h - 1) \X (0 .. w - 1)

\* ------------------------------------------------------------ Minesweeper
\* Minesweeper.nearby_mines: mines within one row and column of cell,
\* the cell itself excluded, out-of-bounds positions ignored.
NearbyMines(b, h, w, cell) ==
    Cardinality({ p \in ((cell[1] - 1) .. (cell[1] + 1)) \X ((cell[2] - 1) .. (cell[2] + 1)) :
                    /\ p # cell
                    /\ 0 <= p[1] /\ p[1] < h /\ 0 <= p[2] /\ p[2] < w
                    /\ p \in b })

\* Minesweeper.is_mine
IsMine(b, cell) == cell \in b

\* --------------------------------------------------------------- Sentence
Sentence(cells, count) == [cells |-> cells, count |-> count]

\* Sentence.known_mines comparing with >= instead of ==
SentenceKnownMines_AtLeast(s) == IF Cardinality(s.cells) >= s.count THEN s.cells ELSE {}

\* Sentence.known_mines
SentenceKnownMines(s) == IF Cardinality(s.cells) = s.count THEN s.cells ELSE {}

\* Sentence.known_safes
SentenceKnownSafes(s) == IF s.count = 0 THEN s.cells ELSE {}

\* Sentence.mark_mine that forgets to lower the count
SentenceMarkMine_KeepCount(s, cell) ==
    IF cell \in s.cells
    THEN [cells |-> s.cells \ {cell}, count |-> s.count]
    ELSE s

\* Sentence.mark_mine without the membership test (discard for remove)
SentenceMarkMine_Unguarded(s, cell) ==
    [cells |-> s.cells \ {cell}, count |-> s.count - 1]

\* Sentence.mark_mine
SentenceMarkMine(s, cell) ==
    IF cell \in s.cells
    THEN [cells |-> s.cells \ {cell}, count |-> s.count - 1]
    ELSE s

\* Sentence.mark_safe that lowers the count as mark_mine does
SentenceMarkSafe_Decrement(s, cell) ==
    IF cell \in s.cells
    THEN [cells |-> s.cells \ {cell}, count |-> s.count - 1]
    ELSE s

\* Sentence.mark_safe
SentenceMarkSafe(s, cell) ==
    IF cell \in s.cells
    THEN [cells |-> s.cells \ {cell}, count |-> s.count]
    ELSE s

\* ---------------------------------------------------------- MinesweeperAI
\* MinesweeperAI.get_all_cells: range(0, height - 1) x range(0, width - 1)
GetAllCells(h, w) == (0 .. h - 2) \X (0 .. w - 2)

\* get_neighbours with the lower-edge test off by one (height for height - 1)
GetNeighbours_PastEdge(h, w, cell) ==
    LET current_row == cell[1]
        current_col == cell[2]
        neighbouring_rows ==
            {current_row}
              \cup (IF current_row > 0 THEN {current_row - 1} ELSE {})
              \cup (IF current_row < h THEN {current_row + 1} ELSE {})
        neighbouring_cols ==
            {current_col}
              \cup (IF current_col > 0 THEN {current_col - 1} ELSE {})
              \cup (IF current_col < w - 1 THEN {current_col + 1} ELSE {})
    IN  { p \in neighbouring_rows \X neighbouring_cols : p # cell }

\* MinesweeperAI.get_neighbours
GetNeighbours(h, w, cell) ==
    LET current_row == cell[1]
        current_col == cell[2]
        neighbouring_rows ==
            {current_row}
              \cup (IF current_row > 0 THEN {current_row - 1} ELSE {})
              \cup (IF current_row < h - 1 THEN {current_row + 1} ELSE {})
        neighbouring_cols ==
            {current_col}
              \cup (IF current_col > 0 THEN {current_col - 1} ELSE {})
              \cup (IF current_col < w - 1 THEN {current_col + 1} ELSE {})
    IN  { p \in neighbouring_rows \X neighbouring_cols : p # cell }

\* the loop "for sentence in self.knowledge: sentence.mark_mine(cell)"
KnowledgeMarkMine(kn, cell) ==
    [i \in DOMAIN kn |-> SentenceMarkMine(kn[i], cell)]

\* the loop "for sentence in self.knowledge: sentence.mark_safe(cell)"
KnowledgeMarkSafe(kn, cell) ==
    [i \in DOMAIN kn |-> SentenceMarkSafe(kn[i], cell)]

\* "for safe_cell in self.safes: sentence.mark_safe(safe_cell)" on one sentence
RECURSIVE MarkSafeEach(_, _)
MarkSafeEach(s, cs) ==
    IF cs = {} THEN s
    ELSE LET c == CHOOSE x \in cs : TRUE
         IN  MarkSafeEach(SentenceMarkSafe(s, c), cs \ {c})

\* "for mine_cell in self.mines: sentence.mark_mine(mine_cell)" on one sentence
RECURSIVE MarkMineEach(_, _)
MarkMineEach(s, cs) ==
    IF cs = {} THEN s
    ELSE LET c == CHOOSE x \in cs : TRUE
         IN  MarkMineEach(SentenceMarkMine(s, c), cs \ {c})

\* resolution that applies the known mines but not the known safe cells
ResolveKnown_MinesOnly(kn, sf, mn) ==
    [i \in DOMAIN kn |-> MarkMineEach(kn[i], mn)]

\* add_knowledge, lines 291-295: every sentence is resolved against every
\* known safe cell, then against every known mine
ResolveKnown(kn, sf, mn) ==
    [i \in DOMAIN kn |-> MarkMineEach(MarkSafeEach(kn[i], sf), mn)]

\* "sentence in self.knowledge" (list membership by Sentence.__eq__)
InKnowledge(s, kn) == \E i \in DOMAIN kn : kn[i] = s

\* MinesweeperAI.perform_cleanup: list.remove(Sentence(set(), 0)) until
\* ValueError, i.e. every sentence equal to {} = 0 is dropped
IsEmptySentence(s) == s = Sentence({}, 0)

PerformCleanup(kn) == SelectSeq(kn, LAMBDA s : ~IsEmptySentence(s))

\* body of the loop of generate_inferences for the pair (one, two):
\* returns the knowledge list after the iteration
InferPair(kn, one, two) ==
    IF one # two /\ one.cells \subseteq two.cells
    THEN LET subset == two.cells \ one.cells
             count == two.count - one.count
             sentence == Sentence(subset, count)
         IN  IF ~InKnowledge(sentence, kn) /\ Cardinality(subset) > 0
             THEN Append(kn, sentence)
             ELSE kn
    ELSE kn

\* itertools.combinations(self.knowledge, 2): the pool is the list as it is
\* when the loop starts; the pairs are (pool[i], pool[j]), i < j, in
\* lexicographic order.  Sentences appended meanwhile are not paired.
RECURSIVE InferLoop(_, _, _, _)
InferLoop(pool, i, j, kn) ==
    IF i >= Len(pool) THEN kn
    ELSE IF j > Len(pool) THEN InferLoop(pool, i + 1, i + 2, kn)
    ELSE InferLoop(pool, i, j + 1, InferPair(kn, pool[i], pool[j]))

\* MinesweeperAI.generate_inferences
GenerateInferences(kn) ==
    LET cleaned == PerformCleanup(kn)
    IN  InferLoop(cleaned, 1, 2, cleaned)

\* harvest that overwrites self.safes instead of extending it
HarvestSafes_Overwrite(kn, sf) == UNION { SentenceKnownSafes(kn[i]) : i \in DOMAIN kn }

\* harvest that stops one sentence short of the end of the list
HarvestMines_SkipLast(kn, mn) ==
    mn \cup UNION { SentenceKnownMines(kn[i]) : i \in 1 .. Len(kn) - 1 }

\* add_knowledge, lines 299-301: the union of what every sentence reports
HarvestSafes(kn, sf) == sf \cup UNION { SentenceKnownSafes(kn[i]) : i \in DOMAIN kn }

HarvestMines(kn, mn) == mn \cup UNION { SentenceKnownMines(kn[i]) : i \in DOMAIN kn }

\* knowledge list of add_knowledge after line 295, for an engine whose
\* knowledge, safes and mines are kn, sf and mn: the cell is marked safe, the
\* new sentence appended and every sentence resolved
ResolvedList(kn, sf, mn, cell, count) ==
    LET marked == KnowledgeMarkSafe(kn, cell)
        sentence == Sentence(GetNeighbours(height, width, cell), count)
        appended == Append(marked, sentence)
    IN  ResolveKnown(appended, sf \cup {cell}, mn)

\* knowledge list of add_knowledge after line 297
AddKnowledgeList(cell, count) ==
    GenerateInferences(ResolvedList(knowledge, safes, mines, cell, count))

\* MinesweeperAI.add_knowledge(cell, count)
DoAddKnowledge(cell, count) ==
    /\ moves_made' = moves_made \cup {cell}
    /\ knowledge' = AddKnowledgeList(cell, count)
    /\ safes' = HarvestSafes(AddKnowledgeList(cell, count), safes \cup {cell})
    /\ mines' = HarvestMines(AddKnowledgeList(cell, count), mines)
    /\ lastOp' = "add_knowledge"
    /\ lastCell' = cell
    /\ lastCount' = count
    /\ ret' = None
    /\ calls' = calls + 1
    /\ repeated' = FALSE
    /\ UNCHANGED <<height, width, board>>

\* the game loop reveals a cell that holds no mine and was not revealed
\* before, and reports the board's count for it
AddKnowledge ==
    /\ calls < MaxCalls
    /\ \E cell \in GridCells(height, width) :
        /\ ~IsMine(board, cell)
        /\ cell \notin moves_made
        /\ DoAddKnowledge(cell, NearbyMines(board, height, width, cell))

\* add_knowledge called with any in-grid cell and any count
AddKnowledgeAny ==
    /\ calls < MaxAnyCalls
    /\ \E cell \in GridCells(height, width), count \in 0 .. MaxCount :
        DoAddKnowledge(cell, count)

\* MinesweeperAI.mark_mine(cell)
MarkMine ==
    /\ calls < MaxAnyCalls
    /\ \E cell \in GridCells(height, width) :
        /\ mines' = mines \cup {cell}
        /\ knowledge' = KnowledgeMarkMine(knowledge, cell)
        /\ lastCell' = cell
        /\ repeated' = (lastOp = "mark_mine" /\ lastCell = cell)
    /\ lastOp' = "mark_mine"
    /\ ret' = None
    /\ calls' = calls + 1
    /\ UNCHANGED <<height, width, board, moves_made, safes, lastCount>>

\* MinesweeperAI.mark_safe(cell)
MarkSafe ==
    /\ calls < MaxAnyCalls
    /\ \E cell \in GridCells(height, width) :
        /\ safes' = safes \cup {cell}
        /\ knowledge' = KnowledgeMarkSafe(knowledge, cell)
        /\ lastCell' = cell
        /\ repeated' = (lastOp = "mark_safe" /\ lastCell = cell)
    /\ lastOp' = "mark_safe"
    /\ ret' = None
    /\ calls' = calls + 1
    /\ UNCHANGED <<height, width, board, moves_made, mines, lastCount>>

\* make_safe_move that does not exclude the moves already made
MakeSafeMove_AnySafe ==
    LET unplayed_safes == safes
    IN  /\ IF unplayed_safes # {}
           THEN ret' \in unplayed_safes
           ELSE ret' = None
        /\ lastOp' = "make_safe_move"
        /\ repeated' = FALSE
        /\ UNCHANGED <<height, width, board, moves_made, mines, safes,
                       knowledge, lastCell, lastCount, calls>>

\* make_safe_move that records the move it returns
MakeSafeMove_Records ==
    LET unplayed_safes == safes \ moves_made
    IN  /\ IF unplayed_safes # {}
           THEN ret' \in unplayed_safes /\ moves_made' = moves_made \cup {ret'}
           ELSE ret' = None /\ moves_made' = moves_made
        /\ lastOp' = "make_safe_move"
        /\ repeated' = FALSE
        /\ UNCHANGED <<height, width, board, mines, safes,
                       knowledge, lastCell, lastCount, calls>>

\* MinesweeperAI.make_safe_move: set.pop() yields an arbitrary element
MakeSafeMove ==
    LET unplayed_safes == safes \ moves_made
    IN  /\ IF unplayed_safes # {}
           THEN ret' \in unplayed_safes
           ELSE ret' = None
        /\ lastOp' = "make_safe_move"
        /\ repeated' = FALSE
        /\ UNCHANGED <<height, width, board, moves_made, mines, safes,
                       knowledge, lastCell, lastCount, calls>>

\* MinesweeperAI.make_random_move: random.choice over the candidates
MakeRandomMove ==
    LET all_cells == GetAllCells(height, width)
        unplayed == all_cells \ moves_made
        unplayed_not_mines == unplayed \ mines
    IN  /\ IF unplayed_not_mines # {}
           THEN ret' \in unplayed_not_mines
           ELSE ret' = None
        /\ lastOp' = "make_random_move"
        /\ repeated' = FALSE
        /\ UNCHANGED <<height, width, board, moves_made, mines, safes,
                       knowledge, lastCell, lastCount, calls>>

\* MinesweeperAI.__init__ on a board of Minesweeper.__init__
InitEngine ==
    /\ moves_made = {}
    /\ mines = {}
    /\ safes = {}
    /\ knowledge = <<>>
    /\ lastOp = "init"
    /\ lastCell = None
    /\ lastCount = 0
    /\ ret = None
    /\ calls = 0
    /\ repeated = FALSE

Init ==
    /\ height \in 1 .. MaxHeight
    /\ width \in 1 .. MaxWidth
    /\ height * width <= MaxCells
    /\ board \in { b \in SUBSET GridCells(height, width) : Cardinality(b) <= MaxMines }
    /\ InitEngine

Next == AddKnowledge \/ MakeSafeMove \/ MakeRandomMove

\* a game: truthful observations of a fixed board, and move queries
Spec == Init /\ [][Next]_vars

InitAny ==
    /\ height \in 1 .. MaxHeight
    /\ width \in 1 .. MaxWidth
    /\ height * width <= MaxAnyCells
    /\ board = {}
    /\ InitEngine

NextAny == AddKnowledgeAny \/ MarkSafe \/ MarkMine \/ MakeSafeMove \/ MakeRandomMove

\* the engine driven with arbitrary arguments
SpecAny == InitAny /\ [][NextAny]_vars

NextMark == AddKnowledgeAny \/ MarkSafe \/ MarkMine

\* the mutating operations of the engine, driven with arbitrary arguments
SpecMark == InitAny /\ [][NextMark]_vars

\* ------------------------------------------------------------ properties
\* record_observation (add_knowledge) is the operation that returned last
Returned == lastOp = "add_knowledge"

\* C1: in a game with truthful observations every cell of known_mines
\* (mines) is a mine of the board and every cell of known_safe (safes) is
\* not a mine of the board.
C1_Soundness ==
    /\ mines \subseteq board
    /\ safes \cap board = {}

\* a mine and a not yet revealed safe cell have both been deduced
C1_Witness ==
    /\ Returned
    /\ mines # {}
    /\ safes \ moves_made # {}

\* C2: known_safe and known_mines are disjoint after every
\* record_observation call of a game with truthful observations.
C2_Disjoint == Returned => safes \cap mines = {}

\* both fact sets hold deduced cells after a second observation
C2_Witness ==
    /\ Returned
    /\ Cardinality(moves_made) >= 2
    /\ mines # {}
    /\ safes # moves_made

\* C3: no engine operation, whatever its arguments, removes a cell from
\* known_safe, known_mines or moves_made.
C3_NeverForgotten ==
    [][/\ moves_made \subseteq moves_made'
       /\ safes \subseteq safes'
       /\ mines \subseteq mines']_vars

\* an observation was recorded while all three sets already held cells
C3_Witness ==
    /\ Returned
    /\ calls >= 3
    /\ moves_made # {}
    /\ mines # {}
    /\ safes \ moves_made # {}

\* every sentence of kn that is complete has its cells in the fact sets
Harvested(kn, sf, mn) ==
    \A i \in DOMAIN kn :
        /\ kn[i].count = 0 => kn[i].cells \subseteq sf
        /\ Cardinality(kn[i].cells) = kn[i].count => kn[i].cells \subseteq mn

\* C6: make_safe_move returns None exactly when safes - moves_made is
\* empty, and otherwise a cell of safes that is not in moves_made (so never
\* a cell already recorded by add_knowledge).
C6_SafeMove ==
    lastOp = "make_safe_move" =>
        /\ ret = None <=> safes \ moves_made = {}
        /\ ret # None => ret \in safes /\ ret \notin moves_made

\* a safe cell is returned while other safe cells are already played
C6_Witness ==
    /\ lastOp = "make_safe_move"
    /\ ret # None
    /\ moves_made # {}

\* C7: make_safe_move leaves moves_made, safes, mines and the knowledge
\* list unchanged, whether it returns a cell or None.
C7_PureQuery ==
    [][lastOp' = "make_safe_move" =>
         UNCHANGED <<moves_made, safes, mines, knowledge>>]_vars

\* make_safe_move returned a cell from a non-empty knowledge base
C7_Witness ==
    /\ lastOp = "make_safe_move"
    /\ ret # None
    /\ knowledge # <<>>
    /\ mines # {}

\* C8: make_random_move returns None exactly when every cell of the full
\* height x width grid is in moves_made or mines, and otherwise a grid
\* cell that is in neither set.
C8_FullGrid ==
    lastOp = "make_random_move" =>
        LET open == GridCells(height, width) \ (moves_made \cup mines)
        IN  /\ ret = None <=> open = {}
            /\ ret # None => ret \in open

\* C9: after every add_knowledge call no cell of any sentence of the
\* knowledge base is in safes or in mines.
C9_Evicted ==
    Returned =>
        \A i \in DOMAIN knowledge :
            knowledge[i].cells \cap (safes \cup mines) = {}

\* C5: when add_knowledge returns, resolving every known safe cell and
\* every known mine out of every sentence leaves no sentence with a
\* non-empty cell set and count = 0 or count = |cells|.
C5_NothingPending ==
    Returned =>
        LET res == ResolveKnown(knowledge, safes, mines)
        IN  \A i \in DOMAIN res :
                res[i].cells # {} =>
                    /\ res[i].count # 0
                    /\ res[i].count # Cardinality(res[i].cells)

\* C10: when add_knowledge returns, for any two distinct sentences A, B of
\* the knowledge base with A.cells a proper subset of B.cells, the sentence
\* B.cells - A.cells = B.count - A.count is in the knowledge base too.
C10_SubsetClosed ==
    Returned =>
        \A i, j \in DOMAIN knowledge :
            LET A == knowledge[i]
                B == knowledge[j]
            IN  (A # B /\ A.cells \subseteq B.cells /\ B.cells \ A.cells # {}) =>
                    InKnowledge(Sentence(B.cells \ A.cells, B.count - A.count),
                                knowledge)

\* neighbours of the observed cell that were in neither fact set when the
\* call was made (the unprimed state of the add_knowledge step)
Unresolved(cell) == GetNeighbours(height, width, cell) \ (safes \cup mines)

\* neighbours of the observed cell that were already known mines
KnownMineNeighbours(cell) == GetNeighbours(height, width, cell) \cap mines

\* C4 (as stated): on return every complete sentence is harvested, a count of
\* 0 puts every neighbour in safes, and a count equal to the number of
\* unresolved neighbours puts all of them in mines.
C4_HarvestedOnReturn ==
    [][lastOp' = "add_knowledge" =>
         /\ Harvested(knowledge', safes', mines')
         /\ lastCount' = 0 =>
               GetNeighbours(height, width, lastCell') \subseteq safes'
         /\ lastCount' = Cardinality(Unresolved(lastCell')) =>
               Unresolved(lastCell') \subseteq mines']_vars

\* C4 (amended): on return every complete sentence is harvested, a count of
\* 0 puts every neighbour in safes, and a count that, less the number of
\* neighbours already known to be mines, equals the number of unresolved
\* neighbours puts all of those in mines.
C4_Amended ==
    [][lastOp' = "add_knowledge" =>
         /\ Harvested(knowledge', safes', mines')
         /\ lastCount' = 0 =>
               GetNeighbours(height, width, lastCell') \subseteq safes'
         /\ lastCount' - Cardinality(KnownMineNeighbours(lastCell'))
                = Cardinality(Unresolved(lastCell')) =>
               Unresolved(lastCell') \subseteq mines']_vars

\* the call returned with a sentence complete as all-mines and another
\* complete as all-safe, both harvested
C4_Witness ==
    /\ Returned
    /\ lastCount > 0
    /\ \E i \in DOMAIN knowledge :
          /\ knowledge[i].cells # {}
          /\ Cardinality(knowledge[i].cells) = knowledge[i].count
          /\ knowledge[i].cells \subseteq mines
    /\ \E j \in DOMAIN knowledge :
          /\ knowledge[j].cells # {}
          /\ knowledge[j].count = 0
          /\ knowledge[j].cells \subseteq safes

\* the sentences that take part in the inference pass of the add_knowledge
\* call that returned last (the unprimed state is the state at the call)
Pool == PerformCleanup(ResolvedList(knowledge, safes, mines, lastCell', lastCount'))

\* C11: one inference pass treats a pair of sentences in both directions:
\* for sentences A, B at any two positions of the knowledge base with
\* A.cells a proper subset of B.cells, the sentence
\* B.cells - A.cells = B.count - A.count is in the knowledge base after it.
C11_BothDirections ==
    [][lastOp' = "add_knowledge" =>
         \A i, j \in DOMAIN Pool :
            (/\ i # j
             /\ Pool[i].cells \subseteq Pool[j].cells
             /\ Pool[j].cells \ Pool[i].cells # {}) =>
                InKnowledge(Sentence(Pool[j].cells \ Pool[i].cells,
                                     Pool[j].count - Pool[i].count),
                            knowledge')]_vars

\* C12: under truthful observations every sentence held after an
\* add_knowledge call has 0 <= count <= |cells|.
C12_CountInvariant ==
    Returned =>
        \A i \in DOMAIN knowledge :
            /\ 0 <= knowledge[i].count
            /\ knowledge[i].count <= Cardinality(knowledge[i].cells)

\* the knowledge base holds more sentences than observations were made, so
\* one of them was derived, and one sentence is still undecided
C12_Witness ==
    /\ Returned
    /\ Len(knowledge) > calls
    /\ \E i \in DOMAIN knowledge :
          /\ knowledge[i].count >= 1
          /\ knowledge[i].count < Cardinality(knowledge[i].cells)

\* C13: for an observation that meets the interface precondition (cell not
\* in moves_made, 0 <= count <= 8) no sentence with an empty cell set takes
\* part in the inference pass or is in the knowledge base on return.
C13_EmptyPurged ==
    [][(/\ lastOp' = "add_knowledge"
        /\ lastCell' \notin moves_made
        /\ lastCount' \in 0 .. 8) =>
           /\ \A i \in DOMAIN Pool : Pool[i].cells # {}
           /\ \A i \in DOMAIN knowledge' : knowledge'[i].cells # {}]_vars

\* the knowledge list kn stored in the order given by the permutation p
Reordered(kn, p) == [i \in DOMAIN kn |-> kn[p[i]]]

\* C14: an engine that differs from this one only in the order in which the
\* knowledge list stores its sentences ends the same add_knowledge call
\* with the same safes and the same mines.
C14_OrderIndependent ==
    [][lastOp' = "add_knowledge" =>
         \A p \in Permutations(DOMAIN knowledge) :
            LET other == GenerateInferences(
                             ResolvedList(Reordered(knowledge, p), safes, mines,
                                          lastCell', lastCount'))
            IN  /\ HarvestSafes(other, safes \cup {lastCell'}) = safes'
                /\ HarvestMines(other, mines) = mines']_vars

\* the grid cells other than cell within one row and one column of it
Adjacent(cell) ==
    { p \in GridCells(height, width) :
        /\ p # cell
        /\ cell[1] - 1 <= p[1] /\ p[1] <= cell[1] + 1
        /\ cell[2] - 1 <= p[2] /\ p[2] <= cell[2] + 1 }

\* C15: for every in-bounds cell get_neighbours returns exactly the grid
\* cells adjacent to it, the cells over which nearby_mines counts, and the
\* sentence of a first observation is about exactly those cells.
C15_NeighboursExact ==
    /\ \A cell \in GridCells(height, width) :
          /\ GetNeighbours(height, width, cell) = Adjacent(cell)
          /\ NearbyMines(board, height, width, cell)
                = Cardinality(Adjacent(cell) \cap board)
    /\ (Returned /\ calls = 1 /\ knowledge # <<>>) =>
          knowledge[1].cells = Adjacent(lastCell)

\* the first observation was of an edge cell that has five neighbours
C15_Witness ==
    /\ Returned
    /\ calls = 1
    /\ height >= 2
    /\ lastCell[1] = height - 1
    /\ knowledge # <<>>
    /\ Cardinality(knowledge[1].cells) = 5

\* C16: Sentence.mark_mine and Sentence.mark_safe leave a sentence that does
\* not hold the cell unchanged; on a sentence that holds it, mark_mine
\* removes exactly that cell and lowers count by exactly 1, and mark_safe
\* removes exactly that cell and keeps count.
C16_ResolveFrame ==
    [][lastOp' \in {"mark_mine", "mark_safe"} =>
         /\ DOMAIN knowledge' = DOMAIN knowledge
         /\ \A i \in DOMAIN knowledge :
               IF lastCell' \in knowledge[i].cells
               THEN /\ knowledge'[i].cells = knowledge[i].cells \ {lastCell'}
                    /\ knowledge'[i].count =
                          IF lastOp' = "mark_mine"
                          THEN knowledge[i].count - 1
                          ELSE knowledge[i].count
               ELSE knowledge'[i] = knowledge[i]]_vars

\* mark_safe took a neighbour of the one observed cell out of its sentence
C16_Witness ==
    /\ lastOp = "mark_safe"
    /\ calls = 2
    /\ Len(knowledge) = 1
    /\ \E x \in moves_made :
          /\ lastCell \in GetNeighbours(height, width, x)
          /\ knowledge[1].cells = GetNeighbours(height, width, x) \ {lastCell}
          /\ knowledge[1].cells # {}
          /\ knowledge[1].count = lastCount

\* C17: engine-level mark_safe and mark_mine are idempotent: a second call
\* with the same cell leaves safes, mines, moves_made and every sentence as
\* the first call left them.
C17_Idempotent ==
    [][/\ lastOp' = "mark_mine" =>
             /\ mines' \cup {lastCell'} = mines'
             /\ KnowledgeMarkMine(knowledge', lastCell') = knowledge'
       /\ lastOp' = "mark_safe" =>
             /\ safes' \cup {lastCell'} = safes'
             /\ KnowledgeMarkSafe(knowledge', lastCell') = knowledge'
       /\ repeated' =>
             UNCHANGED <<safes, mines, moves_made, knowledge>>]_vars

\* mark_mine was called twice in a row for a neighbour of the one observed
\* cell: the count of its sentence is one lower, not two
C17_Witness ==
    /\ repeated
    /\ lastOp = "mark_mine"
    /\ mines = {lastCell}
    /\ Len(knowledge) = 1
    /\ \E x \in moves_made :
          /\ lastCell \in GetNeighbours(height, width, x)
          /\ knowledge[1].cells = GetNeighbours(height, width, x) \ {lastCell}
          /\ knowledge[1].cells # {}
          /\ knowledge[1].count = lastCount - 1

\* C18: after add_knowledge every cell of moves_made is in safes and no
\* sentence of the knowledge base, observed or derived, holds a cell of
\* moves_made.
C18_RevealedGone ==
    Returned =>
        /\ moves_made \subseteq safes
        /\ \A i \in DOMAIN knowledge : knowledge[i].cells \cap moves_made = {}

\* two adjacent cells have been observed, so each was a neighbour in the
\* other's sentence, and the knowledge base holds a derived sentence
C18_Witness ==
    /\ Returned
    /\ Len(knowledge) > calls
    /\ \E x, y \in moves_made : x \in GetNeighbours(height, width, y)
    /\ \A i \in DOMAIN knowledge : knowledge[i].cells # {}

====
